---- MODULE Spec2Model ----
(***************************************************************************)
(* A model of memoryAllocator.c: an sbrk-based malloc/free/calloc/realloc  *)
(* keeping its blocks in a singly linked list of headers (head, tail)      *)
(* under one global mutex.                                                 *)
(*                                                                         *)
(* Addresses and sizes are scaled down: size_t is SizeBits wide, a header  *)
(* takes HeaderSize bytes, the heap holds HeapBytes bytes above InitBrk.   *)
(* Every thread runs the four entry points step by step; a step is one     *)
(* statement (or one run of statements touching no shared state).          *)
(***************************************************************************)
EXTENDS Integers, Sequences, FiniteSets, TLC

\* ------------------------------------------------------------------ bounds
NumThreads == 2     \* threads calling the allocator
MaxSize    == 2     \* largest size passed to malloc/realloc
MaxCount   == 1     \* largest num/nsize passed to calloc
HeapBytes  == 6     \* bytes sbrk can hand out before it reports failure

\* ------------------------------------------------------- program constants
SizeBits   == 5     \* width of size_t (scaled)
HeaderSize == 1     \* sizeof(header_t) (scaled)
NULL       == 0     \* the null pointer
InitBrk    == 1     \* the program break before the first sbrk
SBRK_FAIL  == -1    \* (void*) -1
NoThread   == 0     \* the mutex is unlocked

Modulus  == 2 ^ SizeBits
HeapTop  == InitBrk + HeapBytes
Threads  == 1 .. NumThreads
Addr     == InitBrk .. (HeapTop - 1)
Byte     == {0, 1}
NoBlock  == [ptr |-> NULL, size |-> 0]

VARIABLES
  head, tail,   \* header_t *head, *tail
  hdr,          \* the headers in memory: address -> [size, is_free, next]
  brk,          \* the program break
  mem,          \* payload bytes: address -> byte
  lock,         \* global_malloc_lock: the holder, or NoThread
  pc,           \* per thread: the statement it is at
  op,           \* per thread: the entry point it called
  cont,         \* per thread: where malloc returns to
  num, nsize,   \* per thread: calloc's arguments
  size,         \* per thread: malloc's / realloc's size argument
  block,        \* per thread: free's / realloc's block argument
  ret,          \* per thread: malloc's return value, then the entry point's
  header,       \* per thread: the local header
  mblock,       \* per thread: malloc's local block, the result of sbrk
  pbrk,         \* per thread: free's local programbreak
  owned,        \* per thread: pointers it was given and has not released
  snap,         \* per thread: the payload of block when realloc was called
  lastShrunk    \* history: the block free last gave back to the OS, while no
                \* later malloc or free has changed the list or the break

shared == <<head, tail, hdr, brk>>
locals == <<op, cont, num, nsize, size, block, ret, header, mblock, pbrk, snap>>
vars   == <<head, tail, hdr, brk, mem, lock, pc, op, cont, num, nsize, size,
            block, ret, header, mblock, pbrk, owned, snap, lastShrunk>>

\* ---------------------------------------------------------------- helpers
\* size_t arithmetic
Wrap(n) == n % Modulus

\* a size_t passed where sbrk takes an intptr_t
Signed(n) == IF n >= Modulus \div 2 THEN n - Modulus ELSE n

\* (void*)(header + 1) and (header_t*)block - 1
PayloadOf(h) == h + HeaderSize
HeaderOf(p)  == p - HeaderSize

\* the bytes of a payload, as a sequence
Bytes(m, p, n) == [i \in 1 .. n |-> m[p + i - 1]]

\* the headers reachable from h by next, in order (fuel stops a cyclic walk)
RECURSIVE Walk(_, _, _)
Walk(h, H, fuel) ==
  IF h = NULL \/ fuel = 0 \/ h \notin DOMAIN H THEN <<>>
  ELSE <<h>> \o Walk(H[h].next, H, fuel - 1)

Dir == Walk(head, hdr, HeapBytes + 1)
DirSet == {Dir[i] : i \in 1 .. Len(Dir)}

\* ------------------------------------------------- the Break Interface
\* sbrk(inc): moves the break by the signed inc and returns the old break, or
\* fails and leaves it where it is
sbrk(b, inc) ==
  LET nb == b + Signed(inc)
  IN  IF nb < InitBrk \/ nb > HeapTop
      THEN [ok |-> FALSE, brk |-> b, ret |-> SBRK_FAIL]
      ELSE [ok |-> TRUE, brk |-> nb, ret |-> b]

\* ------------------------------------------------------ block directory
RECURSIVE gfb_loop(_, _, _)
gfb_loop(curr, sz, fuel) ==
  IF curr = NULL \/ fuel = 0 THEN NULL
  ELSE IF hdr[curr].is_free /\ hdr[curr].size >= sz THEN curr
  ELSE gfb_loop(hdr[curr].next, sz, fuel - 1)

\* get_free_block gone wrong: a later fitting header wins over an earlier one
RECURSIVE gfb_last_loop(_, _, _, _)
gfb_last_loop(curr, sz, best, fuel) ==
  IF curr = NULL \/ fuel = 0 THEN best
  ELSE gfb_last_loop(hdr[curr].next, sz,
                     IF hdr[curr].is_free /\ hdr[curr].size >= sz THEN curr ELSE best,
                     fuel - 1)

get_free_block_last(sz) == gfb_last_loop(head, sz, NULL, HeapBytes + 1)

\* get_free_block(size): the first free header from head that is big enough
get_free_block(sz) == gfb_loop(head, sz, HeapBytes + 1)

RECURSIVE unlink_loop(_, _, _, _)

\* lines 75-77 gone wrong: the new tail keeps its next
unlink_loop_keeps_next(tmp, H, tl, fuel) ==
  IF tmp = NULL \/ fuel = 0 THEN [hdr |-> H, tail |-> tl]
  ELSE IF H[tmp].next = tl
       THEN [hdr |-> H, tail |-> tmp]
       ELSE unlink_loop(H[tmp].next, H, tl, fuel - 1)

\* the while loop of free: the header whose next is tail becomes the tail
unlink_loop(tmp, H, tl, fuel) ==
  IF tmp = NULL \/ fuel = 0 THEN [hdr |-> H, tail |-> tl]
  ELSE IF H[tmp].next = tl
       THEN [hdr |-> [H EXCEPT ![tmp].next = NULL], tail |-> tmp]
       ELSE unlink_loop(H[tmp].next, H, tl, fuel - 1)

\* lines 70-71 gone wrong: the list of one header is walked like any other
unlink_tail_always_walks(hd, tl, H) ==
  LET r == unlink_loop(hd, H, tl, HeapBytes + 1)
  IN  [head |-> hd, tail |-> r.tail, hdr |-> r.hdr]

\* free, lines 70-81: drop the tail from the list
unlink_tail(hd, tl, H) ==
  IF hd = tl THEN [head |-> NULL, tail |-> NULL, hdr |-> H]
  ELSE LET r == unlink_loop(hd, H, tl, HeapBytes + 1)
       IN  [head |-> hd, tail |-> r.tail, hdr |-> r.hdr]

\* the test of line 69 gone wrong: <= for ==
at_program_break_le(blk, sz, pb) == Wrap(blk + sz) <= pb

\* free, line 69: the block ends at the program break
at_program_break(blk, sz, pb) == Wrap(blk + sz) = pb

\* line 86 gone wrong: the header's own bytes are not given back
shrink_arg_no_header(sz) == Wrap(0 - sz)

\* free, line 86: the argument of the shrinking sbrk
shrink_arg(sz) == Wrap(0 - sz - HeaderSize)

\* line 118 gone wrong: no room is asked for the header
total_size_no_header(sz) == Wrap(sz)

\* malloc, line 118
total_size(sz) == Wrap(HeaderSize + sz)

\* the test of line 107 gone wrong: a zero size is let through
malloc_rejects_never(sz) == FALSE

\* malloc, line 107
malloc_rejects(sz) == sz = 0

\* calloc, line 146
calloc_rejects(n, ns) == n = 0 \/ ns = 0

\* calloc, line 148
calloc_size(n, ns) == Wrap(n * ns)

\* the test of line 150 gone wrong: overflow looked for as a product smaller
\* than an operand
calloc_overflow_lt(n, ns) == calloc_size(n, ns) < n

\* calloc, line 150: the multiplication overflowed
calloc_overflow(n, ns) == ns # calloc_size(n, ns) \div n

\* the test of line 167 gone wrong: a zero size is not forwarded
realloc_forwards_null_only(blk, sz) == blk = NULL

\* realloc, line 167
realloc_forwards(blk, sz) == blk = NULL \/ sz = 0

\* the test of line 171 gone wrong: > for >=
realloc_fits_strict(hsize, sz) == hsize > sz

\* realloc, line 171
realloc_fits(hsize, sz) == hsize >= sz

\* line 176 gone wrong: one byte short
memcpy_len_short(hsize, sz) == hsize - 1

\* realloc, line 176: the number of bytes memcpy moves
memcpy_len(hsize, sz) == hsize

\* memcpy(dst, src, n) and memset(dst, v, n) on the payload bytes
memcpy(m, dst, src, n) ==
  [a \in DOMAIN m |-> IF a >= dst /\ a < dst + n THEN m[src + (a - dst)] ELSE m[a]]

\* line 157 gone wrong: the last byte is left as it was
memset_short(m, dst, v, n) ==
  [a \in DOMAIN m |-> IF a >= dst /\ a < dst + n - 1 THEN v ELSE m[a]]

memset(m, dst, v, n) ==
  [a \in DOMAIN m |-> IF a >= dst /\ a < dst + n THEN v ELSE m[a]]

\* ------------------------------------------------------------------ Init
Init ==
  /\ head = NULL /\ tail = NULL
  /\ hdr = <<>>
  /\ brk = InitBrk
  /\ mem = [a \in Addr |-> 0]
  /\ lock = NoThread
  /\ pc = [t \in Threads |-> "idle"]
  /\ op = [t \in Threads |-> "none"]
  /\ cont = [t \in Threads |-> "done"]
  /\ num = [t \in Threads |-> 0]
  /\ nsize = [t \in Threads |-> 0]
  /\ size = [t \in Threads |-> 0]
  /\ block = [t \in Threads |-> NULL]
  /\ ret = [t \in Threads |-> NULL]
  /\ header = [t \in Threads |-> NULL]
  /\ mblock = [t \in Threads |-> NULL]
  /\ pbrk = [t \in Threads |-> NULL]
  /\ owned = [t \in Threads |-> {}]
  /\ snap = [t \in Threads |-> <<>>]
  /\ lastShrunk = NoBlock

\* ---------------------------------------------------------------- malloc
\* lines 107-108: if (!size) return NULL -- where malloc(sz) goes first when
\* it is to return to c
malloc_entry(sz, c) == IF malloc_rejects(sz) THEN c ELSE "m_lock"

\* a thread calls malloc(n)
CallMalloc(t, n) ==
  /\ pc[t] = "idle"
  /\ op' = [op EXCEPT ![t] = "malloc"]
  /\ size' = [size EXCEPT ![t] = n]
  /\ cont' = [cont EXCEPT ![t] = "done"]
  /\ pc' = [pc EXCEPT ![t] = malloc_entry(n, "done")]
  /\ UNCHANGED <<shared, mem, lock, num, nsize, block, ret, header, mblock, pbrk,
                 owned, snap, lastShrunk>>

\* malloc gone wrong: it enters without waiting for the mutex
MallocLock_unguarded(t) ==
  /\ pc[t] = "m_lock"
  /\ lock' = t
  /\ LET h == get_free_block(size[t])
     IN  /\ header' = [header EXCEPT ![t] = h]
         /\ pc' = [pc EXCEPT ![t] = IF h # NULL THEN "m_reuse" ELSE "m_sbrk"]
  /\ UNCHANGED <<shared, mem, op, cont, num, nsize, size, block, ret, mblock,
                 pbrk, owned, snap, lastShrunk>>

\* lines 109-111: pthread_mutex_lock blocks until the mutex is free;
\* header = get_free_block(size)
MallocLock(t) ==
  /\ pc[t] = "m_lock"
  /\ lock = NoThread
  /\ lock' = t
  /\ LET h == get_free_block(size[t])
     IN  /\ header' = [header EXCEPT ![t] = h]
         /\ pc' = [pc EXCEPT ![t] = IF h # NULL THEN "m_reuse" ELSE "m_sbrk"]
  /\ UNCHANGED <<shared, mem, op, cont, num, nsize, size, block, ret, mblock,
                 pbrk, owned, snap, lastShrunk>>

\* lines 113-115 gone wrong: the header taken again is cut to the size asked for
MallocReuse_resizes(t) ==
  /\ pc[t] = "m_reuse"
  /\ hdr' = [hdr EXCEPT ![header[t]].is_free = FALSE, ![header[t]].size = size[t]]
  /\ lock' = NoThread
  /\ ret' = [ret EXCEPT ![t] = PayloadOf(header[t])]
  /\ header' = [header EXCEPT ![t] = NULL]
  /\ pc' = [pc EXCEPT ![t] = cont[t]]
  /\ lastShrunk' = NoBlock
  /\ UNCHANGED <<head, tail, brk, mem, op, cont, num, nsize, size, block, mblock,
                 pbrk, owned, snap>>

\* lines 113-115: header->s.is_free = 0; unlock; return (void*)(header + 1)
MallocReuse(t) ==
  /\ pc[t] = "m_reuse"
  /\ hdr' = [hdr EXCEPT ![header[t]].is_free = FALSE]
  /\ lock' = NoThread
  /\ ret' = [ret EXCEPT ![t] = PayloadOf(header[t])]
  /\ header' = [header EXCEPT ![t] = NULL]
  /\ pc' = [pc EXCEPT ![t] = cont[t]]
  /\ lastShrunk' = NoBlock
  /\ UNCHANGED <<head, tail, brk, mem, op, cont, num, nsize, size, block, mblock,
                 pbrk, owned, snap>>

\* lines 118-121: block = sbrk(total_size)
MallocSbrk(t) ==
  /\ pc[t] = "m_sbrk"
  /\ LET r == sbrk(brk, total_size(size[t]))
     IN  /\ brk' = r.brk
         /\ mblock' = [mblock EXCEPT ![t] = r.ret]
         /\ pc' = [pc EXCEPT ![t] = IF r.ok THEN "m_append" ELSE "m_fail"]
  /\ UNCHANGED <<head, tail, hdr, mem, lock, op, cont, num, nsize, size, block,
                 ret, header, pbrk, owned, snap, lastShrunk>>

\* lines 121-124 gone wrong: the failure path returns with the mutex held
MallocFail_keeps_lock(t) ==
  /\ pc[t] = "m_fail"
  /\ ret' = [ret EXCEPT ![t] = NULL]
  /\ mblock' = [mblock EXCEPT ![t] = NULL]
  /\ pc' = [pc EXCEPT ![t] = cont[t]]
  /\ UNCHANGED <<shared, mem, lock, op, cont, num, nsize, size, block, header,
                 pbrk, owned, snap, lastShrunk>>

\* lines 121-124: sbrk failed: unlock, return NULL
MallocFail(t) ==
  /\ pc[t] = "m_fail"
  /\ lock' = NoThread
  /\ ret' = [ret EXCEPT ![t] = NULL]
  /\ mblock' = [mblock EXCEPT ![t] = NULL]
  /\ pc' = [pc EXCEPT ![t] = cont[t]]
  /\ UNCHANGED <<shared, mem, op, cont, num, nsize, size, block, header, pbrk,
                 owned, snap, lastShrunk>>

\* lines 127-129: the fields of a new header
new_header(sz) == [size |-> sz, is_free |-> FALSE, next |-> NULL]

\* lines 126-137: set up the header at block, link it after tail, unlock,
\* return (void*)(header + 1)
MallocAppend(t) ==
  /\ pc[t] = "m_append"
  /\ LET h  == mblock[t]
         h1 == [a \in DOMAIN hdr \cup {h} |->
                  IF a = h THEN new_header(size[t]) ELSE hdr[a]]
     IN  /\ head' = IF head = NULL THEN h ELSE head
         /\ hdr' = IF tail # NULL THEN [h1 EXCEPT ![tail].next = h] ELSE h1
         /\ tail' = h
         /\ ret' = [ret EXCEPT ![t] = PayloadOf(h)]
  /\ lock' = NoThread
  /\ mblock' = [mblock EXCEPT ![t] = NULL]
  /\ pc' = [pc EXCEPT ![t] = cont[t]]
  /\ lastShrunk' = NoBlock
  /\ UNCHANGED <<brk, mem, op, cont, num, nsize, size, block, header, pbrk,
                 owned, snap>>

\* ------------------------------------------------------------------ free
\* lines 54-55: if (!block) return -- where free(blk) goes first
free_entry(blk) == IF blk = NULL THEN "done" ELSE "f_lock"

\* a thread calls free(p) on NULL or on a pointer it owns, and gives it up
CallFree(t, p) ==
  /\ pc[t] = "idle"
  /\ p \in owned[t] \cup {NULL}
  /\ op' = [op EXCEPT ![t] = "free"]
  /\ block' = [block EXCEPT ![t] = p]
  /\ owned' = [owned EXCEPT ![t] = @ \ {p}]
  /\ pc' = [pc EXCEPT ![t] = free_entry(p)]
  /\ UNCHANGED <<shared, mem, lock, cont, num, nsize, size, ret, header, mblock,
                 pbrk, snap, lastShrunk>>

\* free gone wrong: it enters without waiting for the mutex
FreeLock_unguarded(t) ==
  /\ pc[t] = "f_lock"
  /\ lock' = t
  /\ pbrk' = [pbrk EXCEPT ![t] = sbrk(brk, 0).ret]
  /\ pc' = [pc EXCEPT ![t] = "f_check"]
  /\ UNCHANGED <<shared, mem, op, cont, num, nsize, size, block, ret, header,
                 mblock, owned, snap, lastShrunk>>

\* lines 58-61: pthread_mutex_lock; header = block - 1; programbreak = sbrk(0)
FreeLock(t) ==
  /\ pc[t] = "f_lock"
  /\ lock = NoThread
  /\ lock' = t
  /\ pbrk' = [pbrk EXCEPT ![t] = sbrk(brk, 0).ret]
  /\ pc' = [pc EXCEPT ![t] = "f_check"]
  /\ UNCHANGED <<shared, mem, op, cont, num, nsize, size, block, ret, header,
                 mblock, owned, snap, lastShrunk>>

\* lines 69-81: the block ends at the break: take the tail off the list
FreeUnlink(t) ==
  /\ pc[t] = "f_check"
  /\ at_program_break(block[t], hdr[HeaderOf(block[t])].size, pbrk[t])
  /\ LET u == unlink_tail(head, tail, hdr)
     IN  /\ head' = u.head
         /\ tail' = u.tail
         /\ hdr' = u.hdr
  /\ pc' = [pc EXCEPT ![t] = "f_shrink"]
  /\ UNCHANGED <<brk, mem, lock, locals, owned, lastShrunk>>

\* lines 86-95: sbrk(0 - header->s.size - sizeof(header_t)); unlock; return.
\* What lies above the new break is gone, and reads as zero when the break
\* grows over it again.
FreeShrink(t) ==
  /\ pc[t] = "f_shrink"
  /\ LET r == sbrk(brk, shrink_arg(hdr[HeaderOf(block[t])].size))
     IN  /\ brk' = r.brk
         /\ hdr' = [a \in {x \in DOMAIN hdr : x < r.brk} |-> hdr[a]]
         /\ mem' = [a \in DOMAIN mem |-> IF a >= r.brk THEN 0 ELSE mem[a]]
         /\ lastShrunk' = IF r.ok
                          THEN [ptr |-> block[t], size |-> hdr[HeaderOf(block[t])].size]
                          ELSE lastShrunk
  /\ lock' = NoThread
  /\ pbrk' = [pbrk EXCEPT ![t] = NULL]
  /\ pc' = [pc EXCEPT ![t] = "done"]
  /\ UNCHANGED <<head, tail, op, cont, num, nsize, size, block, ret, header,
                 mblock, owned, snap>>

\* lines 97-98: header->s.is_free = 1; unlock
FreeMark(t) ==
  /\ pc[t] = "f_check"
  /\ ~ at_program_break(block[t], hdr[HeaderOf(block[t])].size, pbrk[t])
  /\ hdr' = [hdr EXCEPT ![HeaderOf(block[t])].is_free = TRUE]
  /\ lock' = NoThread
  /\ pbrk' = [pbrk EXCEPT ![t] = NULL]
  /\ pc' = [pc EXCEPT ![t] = "done"]
  /\ lastShrunk' = NoBlock
  /\ UNCHANGED <<head, tail, brk, mem, op, cont, num, nsize, size, block, ret,
                 header, mblock, owned, snap>>

\* ---------------------------------------------------------------- calloc
\* lines 146-152: a thread calls calloc(n, ns): the zero test, the product,
\* the overflow test, malloc(size)
CallCalloc(t, n, ns) ==
  /\ pc[t] = "idle"
  /\ op' = [op EXCEPT ![t] = "calloc"]
  /\ num' = [num EXCEPT ![t] = n]
  /\ nsize' = [nsize EXCEPT ![t] = ns]
  /\ IF calloc_rejects(n, ns) \/ calloc_overflow(n, ns)
     THEN /\ pc' = [pc EXCEPT ![t] = "done"]
          /\ UNCHANGED <<size, cont>>
     ELSE /\ size' = [size EXCEPT ![t] = calloc_size(n, ns)]
          /\ cont' = [cont EXCEPT ![t] = "c_ret"]
          /\ pc' = [pc EXCEPT ![t] = malloc_entry(calloc_size(n, ns), "c_ret")]
  /\ UNCHANGED <<shared, mem, lock, block, ret, header, mblock, pbrk, owned, snap,
                 lastShrunk>>

\* lines 154-158: if (!block) return NULL; memset(block, 0, size)
CallocRet(t) ==
  /\ pc[t] = "c_ret"
  /\ mem' = IF ret[t] = NULL THEN mem ELSE memset(mem, ret[t], 0, size[t])
  /\ pc' = [pc EXCEPT ![t] = "done"]
  /\ UNCHANGED <<shared, lock, locals, owned, lastShrunk>>

\* --------------------------------------------------------------- realloc
\* lines 167-173: a thread calls realloc(p, n) on NULL or on a pointer it owns:
\* forward to malloc, or return block as it is, or malloc(size)
CallRealloc(t, p, n) ==
  /\ pc[t] = "idle"
  /\ p \in owned[t] \cup {NULL}
  /\ op' = [op EXCEPT ![t] = "realloc"]
  /\ block' = [block EXCEPT ![t] = p]
  /\ size' = [size EXCEPT ![t] = n]
  /\ snap' = [snap EXCEPT ![t] =
                IF p = NULL THEN <<>> ELSE Bytes(mem, p, hdr[HeaderOf(p)].size)]
  /\ IF realloc_forwards(p, n)
     THEN /\ cont' = [cont EXCEPT ![t] = "done"]
          /\ pc' = [pc EXCEPT ![t] = malloc_entry(n, "done")]
          /\ UNCHANGED ret
     ELSE IF realloc_fits(hdr[HeaderOf(p)].size, n)
     THEN /\ ret' = [ret EXCEPT ![t] = p]
          /\ pc' = [pc EXCEPT ![t] = "done"]
          /\ UNCHANGED cont
     ELSE /\ cont' = [cont EXCEPT ![t] = "r_ret"]
          /\ pc' = [pc EXCEPT ![t] = malloc_entry(n, "r_ret")]
          /\ UNCHANGED ret
  /\ UNCHANGED <<shared, mem, lock, num, nsize, header, mblock, pbrk, owned,
                 lastShrunk>>

\* line 174 gone wrong: free(block) also when malloc failed
realloc_frees_always(r) == TRUE

\* line 174: free(block) is called exactly when malloc succeeded
realloc_frees(r) == r # NULL

\* lines 174-180: memcpy to the new block, free(block), return ret
ReallocRet(t) ==
  /\ pc[t] = "r_ret"
  /\ IF ret[t] # NULL
     THEN mem' = memcpy(mem, ret[t], block[t],
                        memcpy_len(hdr[HeaderOf(block[t])].size, size[t]))
     ELSE mem' = mem
  /\ IF realloc_frees(ret[t])
     THEN /\ owned' = [owned EXCEPT ![t] = @ \ {block[t]}]
          /\ pc' = [pc EXCEPT ![t] = free_entry(block[t])]
     ELSE /\ pc' = [pc EXCEPT ![t] = "done"]
          /\ UNCHANGED owned
  /\ UNCHANGED <<shared, lock, locals, lastShrunk>>

\* ------------------------------------------------------------ the caller
\* the owner of a block stores a byte in it
UserWrite(t, p, i, v) ==
  /\ pc[t] = "idle"
  /\ p \in owned[t]
  /\ i < hdr[HeaderOf(p)].size
  /\ mem' = [mem EXCEPT ![p + i] = v]
  /\ UNCHANGED <<shared, lock, pc, locals, owned, lastShrunk>>

\* the entry point has returned: the caller keeps the pointer it was given
Return(t) ==
  /\ pc[t] = "done"
  /\ owned' = [owned EXCEPT ![t] =
                 IF op[t] # "free" /\ ret[t] # NULL THEN @ \cup {ret[t]} ELSE @]
  /\ pc' = [pc EXCEPT ![t] = "idle"]
  /\ op' = [op EXCEPT ![t] = "none"]
  /\ cont' = [cont EXCEPT ![t] = "done"]
  /\ num' = [num EXCEPT ![t] = 0]
  /\ nsize' = [nsize EXCEPT ![t] = 0]
  /\ size' = [size EXCEPT ![t] = 0]
  /\ block' = [block EXCEPT ![t] = NULL]
  /\ ret' = [ret EXCEPT ![t] = NULL]
  /\ snap' = [snap EXCEPT ![t] = <<>>]
  /\ UNCHANGED <<shared, mem, lock, header, mblock, pbrk, lastShrunk>>

\* ------------------------------------------------------- specifications
\* one step of the allocator's own code
Step(t) ==
  \/ MallocLock(t) \/ MallocReuse(t) \/ MallocSbrk(t) \/ MallocFail(t)
  \/ MallocAppend(t)
  \/ FreeLock(t) \/ FreeUnlink(t) \/ FreeShrink(t) \/ FreeMark(t)
  \/ CallocRet(t)
  \/ ReallocRet(t)
  \/ Return(t)

Next ==
  \E t \in Threads :
    \/ \E n \in 0 .. MaxSize : CallMalloc(t, n)
    \/ \E n \in 0 .. MaxCount, ns \in 0 .. MaxCount : CallCalloc(t, n, ns)
    \/ \E p \in owned[t] \cup {NULL}, n \in 0 .. MaxSize : CallRealloc(t, p, n)
    \/ \E p \in owned[t] \cup {NULL} : CallFree(t, p)
    \/ \E p \in owned[t], i \in 0 .. (MaxSize * MaxCount), v \in Byte :
         UserWrite(t, p, i, v)
    \/ Step(t)

\* calloc's argument tests alone, on every pair of size_t values: the calls
\* of one thread, none of which goes on into malloc
SizeT == 0 .. (Modulus - 1)

NextCalloc ==
  \E t \in {1} :
    \/ \E n \in SizeT, ns \in SizeT : CallCalloc(t, n, ns)
    \/ Return(t)

\* ------------------------------------------- a foreign user of the break
MaxForeign == 2     \* most bytes a foreign sbrk call asks for at once

\* code outside the allocator calls sbrk(k), k > 0, at any moment and
\* without the allocator's mutex
ForeignSbrk(k) ==
  /\ sbrk(brk, k).ok
  /\ brk' = sbrk(brk, k).brk
  /\ lastShrunk' = NoBlock
  /\ UNCHANGED <<head, tail, hdr, mem, lock, pc, locals, owned>>

\* one step of malloc or free, or their return
StepMallocFree(t) ==
  \/ MallocLock(t) \/ MallocReuse(t) \/ MallocSbrk(t) \/ MallocFail(t)
  \/ MallocAppend(t)
  \/ FreeLock(t) \/ FreeUnlink(t) \/ FreeShrink(t) \/ FreeMark(t)
  \/ Return(t)

NextForeign ==
  \/ \E t \in Threads :
       \/ \E n \in 1 .. MaxSize : CallMalloc(t, n)
       \/ \E p \in owned[t] : CallFree(t, p)
       \/ StepMallocFree(t)
  \/ \E k \in 1 .. MaxForeign : ForeignSbrk(k)

SpecForeign == Init /\ [][NextForeign]_vars

MaxBlocks == 2      \* blocks the caller of SpecSizes asks for and keeps

\* malloc alone on every size_t value: the calls of one thread, which frees
\* nothing and stops once it holds MaxBlocks blocks
NextSizes ==
  \E t \in {1} :
    \/ \E n \in SizeT : Cardinality(owned[t]) < MaxBlocks /\ CallMalloc(t, n)
    \/ MallocLock(t) \/ MallocSbrk(t) \/ MallocFail(t) \/ MallocAppend(t)
    \/ Return(t)

SpecSizes == Init /\ [][NextSizes]_vars

\* the caller of SpecRound has begun to free: a block was given back to the
\* OS or a header is marked free
Releasing == lastShrunk.ptr # NULL \/ \E h \in DOMAIN hdr : hdr[h].is_free

\* one thread that first calls malloc some number of times and then frees
\* what it got, in any order
NextRound ==
  \E t \in {1} :
    \/ \E n \in 1 .. MaxSize : ~ Releasing /\ CallMalloc(t, n)
    \/ \E p \in owned[t] : CallFree(t, p)
    \/ MallocLock(t) \/ MallocSbrk(t) \/ MallocFail(t) \/ MallocAppend(t)
    \/ FreeLock(t) \/ FreeUnlink(t) \/ FreeShrink(t) \/ FreeMark(t)
    \/ Return(t)

SpecRound == Init /\ [][NextRound]_vars

SpecCalloc == Init /\ [][NextCalloc]_vars

Spec == Init /\ [][Next]_vars

\* ============================================================== claims
\* the bytes of the block at header h: header plus payload
Range(h) == h .. (h + HeaderSize + hdr[h].size - 1)

\* headers of the list that are in use
InUse == {h \in DirSet : ~ hdr[h].is_free}

\* the pointers thread t was handed and has not yet had free take back
HeldBy(t) ==
  (owned[t] \cup {ret[t]} \cup
     (IF pc[t] \in {"f_lock", "f_check"} THEN {block[t]} ELSE {})) \ {NULL}

\* thread t is between pthread_mutex_lock and pthread_mutex_unlock
InCritical(t) ==
  pc[t] \in {"m_reuse", "m_sbrk", "m_fail", "m_append", "f_check", "f_shrink"}

\* thread t takes a step from the statement at label l
Leaves(t, l) == pc[t] = l /\ pc'[t] # l

\* the indices in Dir of the free headers of size at least n
Fits(n) == {i \in 1 .. Len(Dir) : hdr[Dir[i]].is_free /\ hdr[Dir[i]].size >= n}

\* the first of them in list order
FirstFit(n) == Dir[CHOOSE i \in Fits(n) : \A j \in Fits(n) : i <= j]

\* C1: with any interleaving of the threads' calls, no two in-use blocks
\* overlap (header plus payload), every pointer a thread holds is an in-use
\* block of the list, and no pointer is held by two threads at once.
C1_NoOverlap ==
  /\ \A h1, h2 \in InUse : h1 # h2 => Range(h1) \cap Range(h2) = {}
  /\ \A t \in Threads : \A p \in HeldBy(t) : HeaderOf(p) \in InUse
  /\ \A t1, t2 \in Threads : t1 # t2 => HeldBy(t1) \cap HeldBy(t2) = {}

\* C1 witness: both threads hold blocks while one is inside malloc and the
\* other waits for the lock
C1_Witness ==
  \E t1, t2 \in Threads :
    /\ t1 # t2
    /\ owned[t1] # {} /\ owned[t2] # {}
    /\ pc[t1] = "m_reuse"
    /\ pc[t2] \in {"m_lock", "f_lock"}

\* C2: at most one thread is between lock and unlock, it is the holder of the
\* mutex, and every step that changes head, tail, a header or the break is a
\* step of the thread that holds the mutex.
C2_MutualExclusion ==
  /\ [](/\ Cardinality({t \in Threads : InCritical(t)}) <= 1
        /\ \A t \in Threads : InCritical(t) <=> lock = t)
  /\ [][shared' # shared =>
          \E t \in Threads : lock = t /\ InCritical(t) /\ pc'[t] # pc[t]]_vars

\* C2 witness: one thread has changed the list under the lock while the other
\* is blocked at pthread_mutex_lock
C2_Witness ==
  \E t1, t2 \in Threads :
    /\ t1 # t2
    /\ pc[t1] = "f_shrink" /\ lock = t1
    /\ pc[t2] \in {"m_lock", "f_lock"}

\* C3: when the list holds a free header of size >= n, malloc(n) takes the
\* first such header in list order, clears its is_free, returns its payload
\* address, and neither moves the break nor adds a header; the break is grown
\* only when no header fits.
C3_FirstFit ==
  [][\A t \in Threads :
       /\ (Leaves(t, "m_lock") /\ Fits(size[t]) # {}) =>
             pc'[t] = "m_reuse" /\ header'[t] = FirstFit(size[t])
       /\ Leaves(t, "m_reuse") =>
             /\ header[t] = FirstFit(size[t])
             /\ ret'[t] = PayloadOf(header[t])
             /\ hdr' = [hdr EXCEPT ![header[t]].is_free = FALSE]
             /\ UNCHANGED <<head, tail, brk>>
       /\ Leaves(t, "m_sbrk") => Fits(size[t]) = {}]_vars

\* C3 witness: a = malloc(n), b = malloc(n), free(a), and malloc(n) is about
\* to return a, the head, while b is in use
C3_Witness ==
  \E t \in Threads :
    /\ pc[t] = "m_reuse" /\ header[t] = head
    /\ Len(Dir) = 2 /\ ~ hdr[tail].is_free
    /\ hdr[head].size = size[t] /\ hdr[tail].size = size[t]

\* the state of C4: a and b were carved from the empty list with the same
\* size, b has just been given back, a is in use, and thread t asks for that
\* size again
C4_Scenario(t) ==
  /\ lastShrunk.ptr # NULL /\ lastShrunk.size = size[t]
  /\ Len(Dir) = 1 /\ head = InitBrk
  /\ ~ hdr[head].is_free /\ hdr[head].size = size[t]

\* free(b) of the tail b of a two-block list takes b off the list and lowers
\* the break to b's header
C4_ReleaseShrinks(t) ==
  /\ (/\ Leaves(t, "f_check") /\ Len(Dir) = 2 /\ HeaderOf(block[t]) = tail
      /\ block[t] + hdr[tail].size = brk) =>
        /\ pc'[t] = "f_shrink"
        /\ Dir' = <<head>>
  /\ Leaves(t, "f_shrink") =>
        /\ HeaderOf(block[t]) \notin DirSet'
        /\ brk' = brk - (hdr[HeaderOf(block[t])].size + HeaderSize)
        /\ brk' = HeaderOf(block[t])

\* C4 as stated: after a = malloc(n), b = malloc(n), free(b), the tail b is
\* off the list and the break is lowered, and the next malloc(n) does not
\* return b's old address.
C4_Original ==
  [][\A t \in Threads :
       /\ C4_ReleaseShrinks(t)
       /\ (Leaves(t, "m_append") /\ C4_Scenario(t)) =>
             ret'[t] # lastShrunk.ptr]_vars

\* C4 amended: after a = malloc(n), b = malloc(n), free(b), the tail b is off
\* the list and the break is lowered to b's header; the next malloc(n) finds
\* nothing to reuse, grows the break again and returns exactly b's old
\* address, as the payload of a new header appended to the list.
C4_RegrowsAtSameAddress ==
  [][\A t \in Threads :
       /\ C4_ReleaseShrinks(t)
       /\ (Leaves(t, "m_lock") /\ C4_Scenario(t)) => pc'[t] = "m_sbrk"
       /\ (Leaves(t, "m_append") /\ C4_Scenario(t)) =>
             /\ ret'[t] = lastShrunk.ptr
             /\ Len(Dir') = 2 /\ tail' = HeaderOf(lastShrunk.ptr)
             /\ hdr'[tail'] = new_header(size[t])]_vars

\* C4 witness: in that state the break has been grown and malloc is about to
\* return the block at b's old address
C4_Witness ==
  \E t \in Threads :
    /\ pc[t] = "m_append" /\ C4_Scenario(t)
    /\ PayloadOf(mblock[t]) = lastShrunk.ptr

\* C5: free(p) of an in-use block that does not end at the break changes
\* nothing but that header's is_free, which becomes true: head, tail, the
\* break, the list and every other header field stay, and the header is one
\* that get_free_block can return afterwards.
C5_MarkOnly ==
  [][\A t \in Threads :
       LET h == HeaderOf(block[t])
       IN  (/\ pc[t] \in {"f_lock", "f_check"} /\ pc'[t] # pc[t]
            /\ ~ hdr[h].is_free
            /\ block[t] + hdr[h].size # brk) =>
              /\ UNCHANGED <<head, tail, brk>>
              /\ Dir' = Dir
              /\ pc[t] = "f_lock" => hdr' = hdr
              /\ pc[t] = "f_check" =>
                   /\ hdr' = [hdr EXCEPT ![h].is_free = TRUE]
                   /\ pc'[t] = "done"
                   /\ (h \in {Dir[i] : i \in Fits(hdr[h].size)})']_vars

\* C5 witness: free has returned, and its block is a free header in the
\* middle of the list
C5_Witness ==
  \E t \in Threads :
    /\ pc[t] = "done" /\ op[t] = "free" /\ block[t] # NULL
    /\ HeaderOf(block[t]) \in DirSet \ {tail}
    /\ hdr[HeaderOf(block[t])].is_free
    /\ Len(Dir) = 3

\* C6 as stated: realloc(p, m) of an in-use block with m <= its size, m = 0
\* included, returns p and leaves head, tail, the headers and the break alone.
C6_Original ==
  [][\A t \in Threads :
       (/\ pc[t] = "idle" /\ op'[t] = "realloc" /\ block'[t] # NULL
        /\ size'[t] <= hdr[HeaderOf(block'[t])].size) =>
          /\ pc'[t] = "done" /\ ret'[t] = block'[t]
          /\ UNCHANGED <<shared, mem, lock>>]_vars

\* C6 amended: realloc(p, m) of an in-use block with 0 < m <= its size returns
\* p and leaves head, tail, the headers and the break alone.
C6_ShrinkReturnsSame ==
  [][\A t \in Threads :
       (/\ pc[t] = "idle" /\ op'[t] = "realloc" /\ block'[t] # NULL
        /\ size'[t] > 0
        /\ size'[t] <= hdr[HeaderOf(block'[t])].size) =>
          /\ pc'[t] = "done" /\ ret'[t] = block'[t]
          /\ UNCHANGED <<shared, mem, lock>>]_vars

\* C6 witness: realloc has returned its argument for a size smaller than the
\* block's, while another block of the list is free
C6_Witness ==
  \E t \in Threads :
    /\ pc[t] = "done" /\ op[t] = "realloc" /\ block[t] # NULL
    /\ size[t] > 0 /\ size[t] < hdr[HeaderOf(block[t])].size
    /\ ret[t] = block[t]
    /\ \E h \in DirSet : hdr[h].is_free

\* realloc(p, m) of thread t, with p not null and m above the size of p's
\* block, has returned
GrowDone(t) ==
  /\ pc[t] = "done" /\ op[t] = "realloc" /\ block[t] # NULL
  /\ size[t] > Len(snap[t])

\* C7: a realloc(p, m) with m above the block's size s that returns a pointer
\* returns one other than p, to an in-use block of size >= m whose first s
\* bytes are p's payload as it was at the call; it calls free(p), and when that
\* free returns the old header is flagged free or off the list -- whatever
\* the other threads do in between.
C7_GrowCopiesAndReleases ==
  /\ [](\A t \in Threads :
          (GrowDone(t) /\ ret[t] # NULL) =>
            /\ ret[t] # block[t]
            /\ HeaderOf(ret[t]) \in InUse
            /\ hdr[HeaderOf(ret[t])].size >= size[t]
            /\ Bytes(mem, ret[t], Len(snap[t])) = snap[t])
  /\ [][\A t \in Threads :
          /\ (Leaves(t, "r_ret") /\ ret[t] # NULL) => pc'[t] = "f_lock"
          /\ (/\ op[t] = "realloc" /\ pc[t] \in {"f_check", "f_shrink"}
              /\ pc'[t] = "done") =>
                \/ HeaderOf(block[t]) \notin DirSet'
                \/ hdr'[HeaderOf(block[t])].is_free]_vars

\* C7 witness: a growing realloc has returned a copy of a payload that is not
\* all zero, while the other thread holds a block too
C7_Witness ==
  \E t, u \in Threads :
    /\ t # u /\ owned[u] # {}
    /\ GrowDone(t) /\ ret[t] # NULL
    /\ \E i \in 1 .. Len(snap[t]) : snap[t][i] # 0

\* C8: when sbrk fails, malloc returns NULL with head, tail, the headers and
\* the break as they were and the mutex unlocked; and a realloc(p, m) that
\* needed a larger block returns NULL with p's block still on the list, in
\* use, with its size and payload as they were.
C8_FailureLeavesState ==
  /\ [](\A t \in Threads :
          (GrowDone(t) /\ ret[t] = NULL) =>
            /\ block[t] \in owned[t]
            /\ HeaderOf(block[t]) \in InUse
            /\ hdr[HeaderOf(block[t])].size = Len(snap[t])
            /\ Bytes(mem, block[t], Len(snap[t])) = snap[t])
  /\ [][\A t \in Threads :
          /\ (Leaves(t, "m_lock") /\ pc'[t] = "m_sbrk") => UNCHANGED shared
          /\ (Leaves(t, "m_sbrk") /\ brk + HeaderSize + size[t] > HeapTop) =>
                pc'[t] = "m_fail" /\ UNCHANGED shared
          /\ Leaves(t, "m_fail") =>
                /\ pc'[t] = cont[t] /\ ret'[t] = NULL
                /\ lock = t /\ lock' = NoThread
                /\ UNCHANGED shared]_vars

\* C8 witness: a growing realloc has returned NULL
C8_Witness ==
  \E t \in Threads :
    /\ GrowDone(t) /\ ret[t] = NULL
    /\ \E i \in 1 .. Len(snap[t]) : snap[t][i] # 0

\* C9: malloc(0), calloc(0, k) and calloc(k, 0) return NULL at once: the
\* mutex is not taken, and head, tail, the headers, the break and the payloads
\* stay as they are.
C9_ZeroArguments ==
  [][\A t \in Threads :
       (/\ pc[t] = "idle"
        /\ \/ op'[t] = "malloc" /\ size'[t] = 0
           \/ op'[t] = "calloc" /\ (num'[t] = 0 \/ nsize'[t] = 0)) =>
         /\ pc'[t] = "done" /\ ret'[t] = NULL
         /\ UNCHANGED <<shared, mem, lock>>]_vars

\* C9 witness: malloc(0) and calloc with a zero argument have both returned
\* NULL while the list holds a free block
C9_Witness ==
  \E t, u \in Threads :
    /\ pc[t] = "done" /\ op[t] = "malloc" /\ size[t] = 0 /\ ret[t] = NULL
    /\ pc[u] = "done" /\ op[u] = "calloc" /\ num[u] + nsize[u] = 1
    /\ ret[u] = NULL
    /\ \E h \in DirSet : hdr[h].is_free

\* C10: for num > 0 and nsize > 0 as SizeBits-bit values, calloc returns NULL
\* without calling malloc exactly when num * nsize is 2^SizeBits or more;
\* otherwise it calls malloc with the product.
C10_OverflowGuard ==
  \A t \in Threads :
    (op[t] = "calloc" /\ num[t] > 0 /\ nsize[t] > 0) =>
      IF num[t] * nsize[t] >= Modulus
      THEN pc[t] = "done" /\ ret[t] = NULL
      ELSE pc[t] = "m_lock" /\ size[t] = num[t] * nsize[t]

\* C10 witness: calloc has returned NULL for a product that overflows to a
\* value no smaller than either operand
C10_Witness ==
  \E t \in Threads :
    /\ pc[t] = "done" /\ op[t] = "calloc" /\ ret[t] = NULL
    /\ num[t] > 0 /\ nsize[t] > 0
    /\ num[t] * nsize[t] >= Modulus
    /\ calloc_size(num[t], nsize[t]) >= num[t]
    /\ calloc_size(num[t], nsize[t]) >= nsize[t]

\* C11: whenever calloc(num, nsize) has returned a pointer, the first
\* num * nsize bytes of the payload are zero, whether the block is new or a
\* free block taken again with the bytes its last owner left in it.
C11_ZeroFilled ==
  \A t \in Threads :
    (pc[t] = "done" /\ op[t] = "calloc" /\ ret[t] # NULL) =>
      /\ HeaderOf(ret[t]) \in InUse
      /\ hdr[HeaderOf(ret[t])].size >= num[t] * nsize[t]
      /\ \A i \in 0 .. (num[t] * nsize[t] - 1) : mem[ret[t] + i] = 0

\* C11 witness: calloc has returned a block larger than it asked for, so one
\* taken again from the list, whose bytes past the zeroed ones are still the
\* non-zero bytes of its last owner
C11_Witness ==
  \E t \in Threads :
    /\ pc[t] = "done" /\ op[t] = "calloc" /\ ret[t] # NULL
    /\ hdr[HeaderOf(ret[t])].size > num[t] * nsize[t]
    /\ mem[ret[t]] = 0
    /\ mem[ret[t] + num[t] * nsize[t]] # 0

\* C12: realloc(p, 0) on a non-null pointer p to a block in use returns NULL
\* and frees nothing: the call itself leaves head, tail, the headers and the
\* break as they are, and at its return p's header is still in the list with
\* is_free 0.
C12_ResizeToZero ==
  /\ [](\A t \in Threads :
          (pc[t] = "done" /\ op[t] = "realloc" /\ block[t] # NULL /\ size[t] = 0) =>
            /\ ret[t] = NULL
            /\ block[t] \in owned[t]
            /\ HeaderOf(block[t]) \in InUse)
  /\ [][\A t \in Threads :
          (pc[t] = "idle" /\ op'[t] = "realloc" /\ block'[t] # NULL /\ size'[t] = 0) =>
            /\ pc'[t] = "done" /\ ret'[t] = NULL
            /\ UNCHANGED <<shared, mem, lock, owned>>]_vars

\* C12 witness: realloc(p, 0) has returned NULL for a block p in use
C12_Witness ==
  \E t \in Threads :
    /\ pc[t] = "done" /\ op[t] = "realloc" /\ block[t] # NULL /\ size[t] = 0
    /\ ret[t] = NULL
    /\ HeaderOf(block[t]) \in InUse
    /\ hdr[HeaderOf(block[t])].size > 0

\* the headers written in the heap that free has not just taken off the list
Linked == DOMAIN hdr \ {HeaderOf(block[t]) : t \in {u \in Threads : pc[u] = "f_shrink"}}

\* C13: in every reachable state head is NULL exactly when tail is NULL;
\* following next from head visits every header of the list exactly once and
\* ends, without a cycle; and when the list is not empty the header it ends
\* at is tail, whose next is NULL.
C13_WellFormed ==
  /\ (head = NULL) <=> (tail = NULL)
  /\ \A i, j \in 1 .. Len(Dir) : Dir[i] = Dir[j] => i = j
  /\ DirSet = Linked
  /\ head # NULL =>
       /\ Dir[1] = head
       /\ Dir[Len(Dir)] = tail
       /\ hdr[tail].next = NULL

\* C13 witness: a list of two headers after a free has taken a third off
\* its end
C13_Witness ==
  /\ Len(Dir) = 2
  /\ lastShrunk.ptr # NULL
  /\ HeaderOf(lastShrunk.ptr) > tail
  /\ \E t \in Threads : pc[t] = "done" /\ op[t] = "free" /\ block[t] = lastShrunk.ptr

\* C14 as stated: for every header that stays in the list, no step changes
\* its size or its next.
C14_Original ==
  [][\A h \in DirSet \cap DirSet' :
       hdr'[h].size = hdr[h].size /\ hdr'[h].next = hdr[h].next]_vars

\* C14, amended: for every header that stays in the list, no step changes its
\* size; its next changes only when it is the tail and malloc appends a new
\* header after it (next becomes that header, the new tail), or when it comes
\* before the tail that free takes off (next becomes NULL and it is the new
\* tail).
C14_SizeFixedNextAtTail ==
  [][\A h \in DirSet \cap DirSet' :
       /\ hdr'[h].size = hdr[h].size
       /\ hdr'[h].next # hdr[h].next =>
            \/ /\ \E t \in Threads : Leaves(t, "m_append")
               /\ h = tail /\ hdr[h].next = NULL
               /\ hdr'[h].next = tail' /\ tail' \notin DirSet
            \/ /\ \E t \in Threads : Leaves(t, "f_check")
               /\ hdr[h].next = tail /\ tail \notin DirSet'
               /\ hdr'[h].next = NULL /\ tail' = h]_vars

\* C14 witness: free has taken the tail off a list in which two headers stay,
\* the first of them marked free
C14_Witness ==
  \E t \in Threads :
    /\ pc[t] = "f_shrink"
    /\ Len(Dir) = 2
    /\ hdr[head].is_free
    /\ hdr[head].next = tail /\ hdr[tail].next = NULL

\* C15: with no one but malloc and free moving the break, in every reachable
\* state in which no thread is inside the locked part of malloc or free and
\* the list is not empty, the tail's block ends at the break:
\* (tail + 1) + tail->s.size = sbrk(0).
C15_TailAtBreak ==
  (lock = NoThread /\ head # NULL) =>
    PayloadOf(tail) + hdr[tail].size = brk

\* C15 witness: the mutex is free and the tail that ends at the break is a
\* block marked free, left there when free took the block after it
C15_Witness ==
  /\ lock = NoThread
  /\ head # NULL /\ head # tail
  /\ hdr[tail].is_free
  /\ lastShrunk.ptr # NULL
  /\ PayloadOf(tail) + hdr[tail].size = brk

\* C16: free of a block that ends at the break takes exactly that block's
\* header off the list: the list is one shorter; if it was the only header,
\* head and tail become NULL, otherwise the header before it becomes the tail
\* with next NULL and no other header changes; the break then goes down by
\* exactly the block's size plus sizeof(header_t); and the header is never
\* marked free.
C16_ReleaseAtBreak ==
  [][\A t \in Threads :
       LET h == HeaderOf(block[t])
           n == Len(Dir)
       IN  /\ (Leaves(t, "f_check") /\ block[t] + hdr[h].size = brk) =>
                /\ pc'[t] = "f_shrink"
                /\ Dir[n] = h
                /\ Dir' = SubSeq(Dir, 1, n - 1)
                /\ n = 1 => head' = NULL /\ tail' = NULL
                /\ n > 1 =>
                     /\ head' = head
                     /\ tail' = Dir[n - 1]
                     /\ hdr'[tail'].next = NULL
                     /\ \A x \in DirSet \ {h, tail'} : hdr'[x] = hdr[x]
                     /\ hdr'[tail'].size = hdr[tail'].size
                     /\ hdr'[tail'].is_free = hdr[tail'].is_free
                /\ ~ hdr'[h].is_free
                /\ brk' = brk
           /\ Leaves(t, "f_shrink") =>
                /\ pc'[t] = "done"
                /\ brk' = brk - (hdr[h].size + HeaderSize)
                /\ brk' = h
                /\ ~ hdr[h].is_free
                /\ h \notin DirSet'
                /\ head' = head /\ tail' = tail
                /\ \A x \in DirSet : hdr'[x] = hdr[x]]_vars

\* C16 witness: free has taken the last of several headers off the list, one
\* of those that stay being marked free, and is about to lower the break
C16_Witness ==
  \E t \in Threads :
    /\ pc[t] = "f_shrink" /\ head # NULL /\ head # tail
    /\ block[t] + hdr[HeaderOf(block[t])].size = brk
    /\ HeaderOf(block[t]) \notin DirSet
    /\ \E h \in DirSet : hdr[h].is_free

\* malloc and free as the threads are scheduled: a thread that can take a
\* step of the allocator's code takes one in the end, and a thread waiting in
\* pthread_mutex_lock gets the mutex in the end if it is free again and again
Fairness ==
  \A t \in Threads :
    /\ WF_vars(Step(t))
    /\ SF_vars(MallocLock(t))
    /\ SF_vars(FreeLock(t))

\* the calls and the allocator's steps without the callers' stores into their
\* blocks, which no branch of the code reads
NextCalls ==
  \E t \in Threads :
    \/ \E n \in 0 .. MaxSize : CallMalloc(t, n)
    \/ \E n \in 0 .. MaxCount, ns \in 0 .. MaxCount : CallCalloc(t, n, ns)
    \/ \E p \in owned[t] \cup {NULL}, n \in 0 .. MaxSize : CallRealloc(t, p, n)
    \/ \E p \in owned[t] \cup {NULL} : CallFree(t, p)
    \/ Step(t)

SpecFair == Init /\ [][NextCalls]_vars /\ Fairness

C18_ForeignGrowth ==
  [][\A t \in Threads :
       (Leaves(t, "f_shrink") /\ brk > pbrk[t]) =>
         LET h == HeaderOf(block[t])
             s == hdr[h].size
         IN  /\ lock = t
             /\ pbrk[t] = block[t] + s
             /\ h \notin DirSet
             /\ brk' = brk - (s + HeaderSize)
             /\ brk' < brk /\ brk - 1 >= pbrk[t]
             /\ brk' = h + (brk - pbrk[t])
             /\ brk' > h]_vars

\* C18 witness: free has returned after such a shrink: the break lies inside
\* the block it released, whose header is off the list
C18_Witness ==
  \E t \in Threads :
    /\ pc[t] = "done" /\ op[t] = "free"
    /\ lastShrunk.ptr = block[t]
    /\ HeaderOf(block[t]) \notin DirSet
    /\ brk > HeaderOf(block[t])
    /\ brk < block[t] + lastShrunk.size

\* C19: for every n from 1 to 2^SizeBits - 1, a malloc(n) that finds no free
\* block and returns a pointer has grown the heap by exactly
\* sizeof(header_t) + n, a sum that does not wrap, and the payload
\* [p, p + n) it returns lies inside the heap.
C19_GrowsByHeaderPlusSize ==
  [][\A t \in {1} :
       /\ (Leaves(t, "m_sbrk") /\ pc'[t] = "m_append") =>
            /\ HeaderSize + size[t] < Modulus
            /\ brk' = brk + HeaderSize + size[t]
       /\ Leaves(t, "m_append") =>
            /\ ret'[t] # NULL
            /\ ret'[t] + size[t] <= brk]_vars

\* no header of the list is marked free
NoMark == \A h \in DirSet : ~ hdr[h].is_free

\* C20: starting from the empty list, mallocs hand out rising addresses, so
\* freeing in reverse order frees the highest pointer still held each time.
\* Every such free takes its block off the list and lowers the break to the
\* block's header, marking nothing; when the last pointer is freed this way
\* head and tail are NULL and the break is where it began. A free in another
\* order marks its header free and leaves the break; from then on the list
\* is not empty and the break stays above where it began.
C20_RoundTrip ==
  /\ []((pc[1] = "idle" /\ owned[1] = {} /\ NoMark) =>
          head = NULL /\ tail = NULL /\ brk = InitBrk /\ hdr = <<>>)
  /\ [](~ NoMark => head # NULL /\ brk > InitBrk)
  /\ [][LET h == HeaderOf(block[1])
        IN  /\ Leaves(1, "m_append") => \A q \in owned[1] : ret'[1] > q
            /\ (Leaves(1, "f_check") /\ NoMark /\ \A q \in owned[1] : q < block[1]) =>
                 pc'[1] = "f_shrink" /\ NoMark'
            /\ (Leaves(1, "f_shrink") /\ NoMark) =>
                 /\ NoMark'
                 /\ brk' = h
                 /\ DirSet' = {HeaderOf(q) : q \in owned[1]}
            /\ (Leaves(1, "f_check") /\ \E q \in owned[1] : q > block[1]) =>
                 /\ pc'[1] = "done"
                 /\ hdr'[h].is_free /\ h \in DirSet'
                 /\ brk' = brk]_vars

\* C20 witness: the first block handed out is the last to be freed, after a
\* higher one was given back and with nothing marked free: free has emptied
\* the list and is about to lower the break to where it began
C20_Witness ==
  /\ pc[1] = "f_shrink" /\ owned[1] = {}
  /\ HeaderOf(block[1]) = InitBrk
  /\ lastShrunk.ptr > block[1]
  /\ head = NULL /\ tail = NULL
  /\ brk = block[1] + hdr[InitBrk].size

====
